---- MODULE Spec2Model ----
(***************************************************************************)
(* epydoc: the GUI launcher src/scripts/epydoc.pyw and the project         *)
(* Makefile (the current revision, src/Makefile, and its historical        *)
(* revisions), modelled as state machines.                                 *)
(*                                                                         *)
(*   SpecLauncher  one run of epydoc.pyw, statement by statement           *)
(*   Spec          invocations of `make <goal>` on src/Makefile, recipe    *)
(*                 line by recipe line, over a file system with            *)
(*                 modification times                                      *)
(*   SpecUsage     the goals each Makefile revision advertises in its      *)
(*                 usage target, and their resolution to a rule            *)
(***************************************************************************)
EXTENDS Integers, Sequences, FiniteSets, TLC

VARIABLES
    \* ---- launcher (epydoc.pyw)
    lpc,            \* line of the statement to execute next, or how it ended
    sysPath,        \* sys.path, a sequence of directories
    installed,      \* the epydoc package is installed in site-packages
    pywImportable,  \* the platform imports *.pyw files as modules (Windows)
    bound,          \* names bound in the script's namespace
    exc,            \* the exception that ended the script, or "none"
    guiCalls,       \* number of times gui() was entered
    \* ---- make
    mk,             \* which Makefile revision is being run
    mtime,          \* file -> modification time, 0 when the file is absent
    ver,            \* source file -> number of the edit that last changed it
    dex,            \* the set of directories that exist
    dir,            \* directory -> the set of items in it
    content,        \* generated plain file -> what the last write left in it
    remote,         \* items in $(HOST):$(DIR)
    clock,          \* the time of the last file write
    runs,           \* number of make invocations started so far
    edits,          \* number of source edits so far
    phase,          \* "idle" | "running" | "done"
    goal,           \* the goal of the current (or last) invocation
    jobs,           \* the -j value of the current (or last) invocation
    wild,           \* what $(wildcard doc/*) matched when the Makefile was read
    order,          \* the nodes of the goal, in the order make considers them
    st,             \* target -> "none" | "todo" | "run" | "done" | "failed"
    pc,             \* target -> number of recipe lines already run
    ran,            \* the recipe lines executed so far: <<target, line, status>>
    out,            \* lines echoed by the recipes of this invocation
    exit,           \* exit status of the last invocation (0 ok, 2 failure)
    hist            \* again: this invocation repeats the goal of the one
                    \* before it, which succeeded; edited: the sources changed
                    \* between the two; pending: those changed since this one

launcherVars == <<lpc, sysPath, installed, pywImportable, bound, exc, guiCalls>>
fsVars       == <<mtime, ver, dex, dir, content, remote, clock, edits>>
runVars      == <<runs, phase, goal, jobs, wild, order, st, pc, ran, out, exit,
                 hist>>
makeVars     == <<mk, fsVars, runVars>>
vars         == <<launcherVars, makeVars>>

(***************************************************************************)
(* Bounds of the model.                                                    *)
(***************************************************************************)
MaxPath  == 3   \* longest sys.path the launcher is started with
MaxRuns  == 2   \* make invocations per behaviour
MaxEdits == 1   \* source edits per behaviour
MaxJobs  == 2   \* largest -j value
MaxParRuns == 1 \* make invocations per behaviour when run with -j

(***************************************************************************)
(*                       The launcher, epydoc.pyw                          *)
(***************************************************************************)
ScriptDir    == "Scripts"
SitePackages == "site-packages"
PathDirs     == {ScriptDir, SitePackages, "stdlib"}

RECURSIVE SeqsUpTo(_, _)
SeqsUpTo(S, n) ==
    IF n = 0 THEN {<<>>}
    ELSE LET shorter == SeqsUpTo(S, n - 1)
         IN  shorter \cup {Append(s, x) : s \in shorter, x \in S}

\* Python's `del obj[i]`: only a type with __delitem__ supports it; a list
\* removes the element at index i, a module raises TypeError.
DelItem(obj, i) ==
    IF obj.type = "list"
    THEN IF i < Len(obj.items)
         THEN [exc |-> "none",
               obj |-> [obj EXCEPT !.items =
                           [k \in 1..(Len(obj.items) - 1) |->
                               IF k <= i THEN obj.items[k] ELSE obj.items[k + 1]]]]
         ELSE [exc |-> "IndexError", obj |-> obj]
    ELSE [exc |-> "TypeError", obj |-> obj]

\* The object the name `sys` is bound to after `import sys`.
SysModule == [type |-> "module", path |-> [type |-> "list", items |-> sysPath]]

\* What `import epydoc` finds along a search path: the first entry that
\* provides a module of that name.  The script's own directory provides
\* epydoc.pyw itself (where *.pyw is importable), site-packages the package.
RECURSIVE FindEpydoc(_)
FindEpydoc(path) ==
    IF path = <<>> THEN "none"
    ELSE IF Head(path) = ScriptDir /\ pywImportable THEN "script"
    ELSE IF Head(path) = SitePackages /\ installed THEN "package"
    ELSE FindEpydoc(Tail(path))

\* line 10: import sys
ImportSys == [next |-> "L11", exc |-> "none", path |-> sysPath,
              bound |-> bound \cup {"sys"}, gui |-> guiCalls]

\* The uncaught exception e: the interpreter prints the traceback and exits.
Uncaught(e) == [next |-> "traceback", exc |-> e, path |-> sysPath,
                bound |-> bound, gui |-> guiCalls]

\* A handler that swallows the exception and goes on with the next statement.
Swallowed(e) == [next |-> "L13", exc |-> e, path |-> sysPath,
                 bound |-> bound, gui |-> guiCalls]

\* line 11 with the failure caught and ignored.
DelSys0Caught ==
    LET r == DelItem(SysModule, 0)
    IN  IF r.exc = "none"
        THEN [next |-> "L13", exc |-> "none", path |-> r.obj.path.items,
              bound |-> bound, gui |-> guiCalls]
        ELSE Swallowed(r.exc)

\* line 11: del sys[0]   (the subscripted object is the module sys)
DelSys0 ==
    LET r == DelItem(SysModule, 0)
    IN  IF r.exc = "none"
        THEN [next |-> "L13", exc |-> "none", path |-> r.obj.path.items,
              bound |-> bound, gui |-> guiCalls]
        ELSE Uncaught(r.exc)

\* line 13: from epydoc.gui import gui
ImportGui ==
    IF FindEpydoc(sysPath) = "package"
    THEN [next |-> "L14", exc |-> "none", path |-> sysPath,
          bound |-> bound \cup {"gui"}, gui |-> guiCalls]
    ELSE Uncaught("ImportError")

\* line 14: gui()
CallGui ==
    IF "gui" \in bound
    THEN [next |-> "exit0", exc |-> "none", path |-> sysPath,
          bound |-> bound, gui |-> guiCalls + 1]
    ELSE Uncaught("NameError")

Statement(line) ==
    CASE line = "L10" -> ImportSys
      [] line = "L11" -> DelSys0
      [] line = "L13" -> ImportGui
      [] line = "L14" -> CallGui

\* The interpreter executes the statement at lpc.
Interp ==
    /\ lpc \in {"L10", "L11", "L13", "L14"}
    /\ LET r == Statement(lpc)
       IN  /\ lpc' = r.next
           /\ exc' = IF exc = "none" THEN r.exc ELSE exc
           /\ sysPath' = r.path
           /\ bound' = r.bound
           /\ guiCalls' = r.gui
    /\ UNCHANGED <<installed, pywImportable, makeVars>>

LauncherStart ==
    /\ lpc = "L10"
    /\ sysPath \in {<<ScriptDir>> \o t : t \in SeqsUpTo(PathDirs, MaxPath - 1)}
    /\ installed \in BOOLEAN
    /\ pywImportable \in BOOLEAN
    /\ bound = {}
    /\ exc = "none"
    /\ guiCalls = 0

(***************************************************************************)
(*                     src/Makefile: names and rules                       *)
(***************************************************************************)
Current == "Makefile"

\* Configuration variables (lines 12-39).  One representative file stands
\* for each list that `find` or a wildcard expands to.
PY_SRCFILES   == <<"src/epydoc/cli.py">>
EXAMPLES_SRC  == <<"doc/inh_example.py">>
DOCTESTS      == <<"src/epydoc/test/a.doctest", "src/epydoc/test/b.doctest">>
\* doc/doctest is the directory of the doctest index page, beside the manual.
DocSources    == <<"doc/index.html", "doc/inh_example.py", "doc/doctest">>
ManHtml       == <<"doc/epydoc-man.html", "doc/epydocgui-man.html">>
ManPages      == <<"man/epydoc.1", "man/epydocgui.1">>
WEBDIR        == "webpage"
LATEX         == "latex"
HTML          == "html"
HTML_API      == "html/api"
HTML_EXAMPLES == "html/examples"
HTML_STDLIB   == "html/stdlib"
HTML_DOCTEST  == "html/doctest"
LATEX_API     == "latex/api"
LATEX_STDLIB  == "latex/stdlib"
HTML_DOCUTILS == "html/docutils"
LATEX_DOCUTILS == "latex/docutils"
LOCALDIR      == "/var/www/epydoc"
SRC_DIST      == "src/dist"
PROFILE_TMP   == "profile.tmp"

Range(s) == {s[i] : i \in DOMAIN s}

\* $(DOCS) = $(wildcard doc/*), expanded when the Makefile is read: the doc
\* sources, and the generated man pages that exist at that moment.
Wildcard(mt) == DocSources \o SelectSeq(ManHtml, LAMBDA f : mt[f] > 0)
DOCS == wild

Sentinels == {".distributions.up2date", ".webpage.up2date", ".api-html.up2date",
              ".api-pdf.up2date", ".doctest-html.up2date", ".examples.up2date",
              ".stdlib-html.up2date", ".stdlib-pdf.up2date",
              ".docutils-html.up2date", ".docutils-pdf.up2date"}

SourceFiles == Range(PY_SRCFILES) \cup Range(DocSources) \cup Range(DOCTESTS)
                  \cup Range(ManPages)
GenFiles    == Sentinels \cup Range(ManHtml) \cup {"profile.out"}
Files       == SourceFiles \cup GenFiles

Dirs == {WEBDIR, HTML, LATEX, HTML_API, HTML_EXAMPLES, HTML_STDLIB, HTML_DOCTEST,
         HTML_DOCUTILS, LATEX_API, LATEX_STDLIB, LATEX_DOCUTILS, PROFILE_TMP,
         LOCALDIR, SRC_DIST}

\* The directory d and every directory below it.
Tree(d) ==
    CASE d = HTML  -> {HTML, HTML_API, HTML_EXAMPLES, HTML_STDLIB, HTML_DOCTEST,
                       HTML_DOCUTILS}
      [] d = LATEX -> {LATEX, LATEX_API, LATEX_STDLIB, LATEX_DOCUTILS}
      [] OTHER     -> {d}

\* The directories `mkdir -p d` creates.
Chain(d) ==
    IF d \in Tree(HTML) THEN {HTML, d}
    ELSE IF d \in Tree(LATEX) THEN {LATEX, d}
    ELSE {d}

\* lines 51-53
Phony == {"all", "usage", "clean", "distributions", "web", "webpage", "xfer",
          "local", "checkdocs", "api-html", "api-pdf", "examples", "stdlib-html",
          "stdlib-pdf", "test", "tests"}

\* One recipe line.  a, b, c are the operands the operation reads.
Line(op, a, b, c) == [op |-> op, a |-> a, b |-> b, c |-> c]
Echo(text)        == Line("echo", text, "", "")
SubMake(g)        == Line("submake", g, "", "")
RmRf(paths)       == Line("rmrf", paths, "", "")
MkdirP(d)         == Line("mkdir", d, "", "")
Touch(f)          == Line("touch", f, "", "")
Epydoc(o, sub, how, input) == Line("epydoc", o, sub, <<how, input>>)

\* lines 56-67: the goal each echoed line advertises ("" for the heading)
UsageLines ==
    <<"", "webpage", "api-html", "api-pdf", "doctest-html", "examples",
      "stdlib-html", "checkdocs", "distributions", "clean", "test">>

\* The rules of src/Makefile: the prerequisites of target t, as written, with
\* $(DOCS) expanded to docs.
Rule(t, docs) ==
    CASE t = "all"                     -> <<"usage">>
      [] t = "distributions"           -> <<".distributions.up2date">>
      [] t = ".distributions.up2date"  ->
             <<"test">> \o PY_SRCFILES \o <<".webpage.up2date">> \o docs
      [] t = "web"                     -> <<"xfer">>
      [] t = "webpage"                 -> <<"xfer">>
      [] t = "xfer"                    -> <<"test", ".webpage.up2date", "stdlib-html">>
      [] t = "local"                   -> <<".webpage.up2date">>
      [] t = "checkdoc"                -> <<"checkdocs">>
      [] t = ".webpage.up2date"        ->
             <<".api-html.up2date", ".examples.up2date", ".api-pdf.up2date",
               ".doctest-html.up2date", "doc/epydoc-man.html",
               "doc/epydocgui-man.html">> \o docs
      [] t = "api-html"                -> <<".api-html.up2date">>
      [] t = ".api-html.up2date"       -> PY_SRCFILES \o <<"profile.out">>
      [] t = "api-pdf"                 -> <<".api-pdf.up2date">>
      [] t = ".api-pdf.up2date"        -> PY_SRCFILES
      [] t = "doctest-html"            -> <<".doctest-html.up2date">>
      [] t = ".doctest-html.up2date"   -> DOCTESTS
      [] t = "examples"                -> <<".examples.up2date">>
      [] t = ".examples.up2date"       -> EXAMPLES_SRC \o PY_SRCFILES
      [] t = "doc/epydoc-man.html"     -> <<"man/epydoc.1">>
      [] t = "doc/epydocgui-man.html"  -> <<"man/epydocgui.1">>
      [] t = "profile.out"             -> PY_SRCFILES
      [] t = "stdlib-html"             -> <<".stdlib-html.up2date">>
      [] t = ".stdlib-html.up2date"    -> PY_SRCFILES
      [] t = "stdlib-pdf"              -> <<".stdlib-pdf.up2date">>
      [] t = ".stdlib-pdf.up2date"     -> PY_SRCFILES
      [] t = "tests"                   -> <<"test">>
      [] t = "docutils"                -> <<"docutils-html", "docutils-pdf">>
      [] t = "docutils-html"           -> <<".docutils-html.up2date">>
      [] t = ".docutils-html.up2date"  -> PY_SRCFILES
      [] t = "docutils-pdf"            -> <<".docutils-pdf.up2date">>
      [] t = ".docutils-pdf.up2date"   -> PY_SRCFILES
      [] OTHER                         -> <<>>

\* xfer without the test suite among its prerequisites.
PrereqsUngated(t, docs) ==
    IF t = "xfer" THEN <<".webpage.up2date", "stdlib-html">>
    ELSE Rule(t, docs)

\* The examples rule without the Python sources among its prerequisites.
PrereqsNoSources(t, docs) ==
    IF t = ".examples.up2date" THEN EXAMPLES_SRC ELSE Rule(t, docs)

\* The webpage assembly without the doctest pages among its prerequisites.
PrereqsNoDoctest(t, docs) ==
    IF t = ".webpage.up2date"
    THEN <<".api-html.up2date", ".examples.up2date", ".api-pdf.up2date",
           "doc/epydoc-man.html", "doc/epydocgui-man.html">> \o docs
    ELSE Rule(t, docs)

\* The examples as a prerequisite of xfer instead of the webpage assembly.
PrereqsLoose(t, docs) ==
    CASE t = "xfer" -> <<"test", ".webpage.up2date", "stdlib-html", "examples">>
      [] t = ".webpage.up2date" ->
             <<".api-html.up2date", ".api-pdf.up2date", ".doctest-html.up2date",
               "doc/epydoc-man.html", "doc/epydocgui-man.html">> \o docs
      [] OTHER -> Rule(t, docs)

\* The prerequisites make reads for t, and those of the invocation under way.
PrereqsOf(t, docs) == Rule(t, docs)

Prereqs(t) == PrereqsOf(t, DOCS)

\* The recipe of target t, one entry per recipe line.
RecipeLines(t) ==
    CASE t = "usage" -> [i \in 1..Len(UsageLines) |-> Echo(UsageLines[i])]
      [] t = "clean" ->
             <<SubMake("clean"),
               RmRf({WEBDIR, HTML, LATEX}),
               RmRf(Sentinels)>>
      [] t = ".distributions.up2date" ->
             <<SubMake("distributions"),
               Touch(".distributions.up2date")>>
      [] t = "xfer" ->
             <<Line("rsync", WEBDIR, <<>>, ""),
               Line("rsync", HTML_STDLIB, <<"stdlib">>, "")>>
      [] t = "local" ->
             <<Line("rmglob", LOCALDIR, "", ""),
               Line("cpglob", WEBDIR, LOCALDIR, <<>>)>>
      [] t = "checkdocs" -> <<Line("check", "", "", "")>>
      [] t = ".webpage.up2date" ->
             <<RmRf({WEBDIR}),
               MkdirP(WEBDIR),
               Line("cpdocs", DOCS, WEBDIR, ""),
               Line("cpdir", HTML_API, WEBDIR, <<"api">>),
               Line("cpdir", HTML_EXAMPLES, WEBDIR, <<"examples">>),
               Line("cpglob", HTML_DOCTEST, WEBDIR, <<"doctest">>),
               Line("cpfile", <<LATEX_API, <<"api.pdf">>>>, WEBDIR, <<"epydoc.pdf">>),
               Touch(".webpage.up2date")>>
      [] t = ".api-html.up2date" ->
             <<RmRf({HTML_API}),
               MkdirP(HTML_API),
               Epydoc(HTML_API, <<>>, "html,inheritance=listed", "src/epydoc/"),
               Touch(".api-html.up2date")>>
      [] t = ".api-pdf.up2date" ->
             <<RmRf({LATEX_API}),
               MkdirP(LATEX_API),
               Epydoc(LATEX_API, <<"api.pdf">>, "pdf", "src/epydoc/"),
               Touch(".api-pdf.up2date")>>
      [] t = ".doctest-html.up2date" ->
             <<RmRf({HTML_DOCTEST}),
               MkdirP(HTML_DOCTEST),
               Line("rst2html", DOCTESTS, HTML_DOCTEST, ""),
               Touch(".doctest-html.up2date")>>
      [] t = ".examples.up2date" ->
             <<RmRf({HTML_EXAMPLES}),
               MkdirP(HTML_EXAMPLES),
               Epydoc(HTML_EXAMPLES, <<>>, "html", "doc/epytext_example.py sre"),
               Epydoc(HTML_EXAMPLES, <<"grouped">>, "html,inheritance=grouped",
                      "doc/inh_example.py"),
               Epydoc(HTML_EXAMPLES, <<"listed">>, "html,inheritance=listed",
                      "doc/inh_example.py"),
               Epydoc(HTML_EXAMPLES, <<"included">>, "html,inheritance=included",
                      "doc/inh_example.py"),
               Touch(".examples.up2date")>>
      [] t = "doc/epydoc-man.html" ->
             <<Line("man2html", "man/epydoc.1", "doc/epydoc-man.html", "")>>
      [] t = "doc/epydocgui-man.html" ->
             <<Line("man2html", "man/epydocgui.1", "doc/epydocgui-man.html", "")>>
      [] t = "profile.out" ->
             <<Line("profile", PROFILE_TMP, "profile.out", ""),
               RmRf({PROFILE_TMP})>>
      [] t = ".stdlib-html.up2date" ->
             <<RmRf({HTML_STDLIB}),
               MkdirP(HTML_STDLIB),
               Echo("Building stdlib html docs..."),
               Epydoc(HTML_STDLIB, <<>>, "html", "stdlib"),
               Touch(".stdlib-html.up2date")>>
      [] t = ".stdlib-pdf.up2date" ->
             <<RmRf({LATEX_STDLIB}),
               MkdirP(LATEX_STDLIB),
               Epydoc(LATEX_STDLIB, <<"api.pdf">>, "pdf", "stdlib")>>
      [] t = "test" -> <<Line("pytest", "", "", "")>>
      [] t = ".docutils-html.up2date" ->
             <<RmRf({HTML_DOCUTILS}),
               MkdirP(HTML_DOCUTILS),
               Epydoc(HTML_DOCUTILS, <<>>, "html", "docutils"),
               Touch(".docutils-html.up2date")>>
      [] t = ".docutils-pdf.up2date" ->
             <<RmRf({LATEX_DOCUTILS}),
               MkdirP(LATEX_DOCUTILS),
               Epydoc(LATEX_DOCUTILS, <<"api.pdf">>, "pdf", "docutils"),
               Touch(".docutils-pdf.up2date")>>
      [] OTHER -> <<>>

\* The examples recipe with the grouped and listed styles swapped.
RecipeSwapped(t) ==
    IF t = ".examples.up2date"
    THEN [i \in 1..Len(RecipeLines(t)) |->
            IF i = 4 THEN Epydoc(HTML_EXAMPLES, <<"grouped">>,
                                 "html,inheritance=listed", "doc/inh_example.py")
            ELSE RecipeLines(t)[i]]
    ELSE RecipeLines(t)

Recipe(t) == RecipeLines(t)

\* Every target some rule of src/Makefile defines.
Targets ==
    {"all", "usage", "clean", "distributions", ".distributions.up2date", "web",
     "webpage", "xfer", "local", "checkdoc", "checkdocs", ".webpage.up2date",
     "api-html", ".api-html.up2date", "api-pdf", ".api-pdf.up2date",
     "doctest-html", ".doctest-html.up2date", "examples", ".examples.up2date",
     "doc/epydoc-man.html", "doc/epydocgui-man.html", "profile.out",
     "stdlib-html", ".stdlib-html.up2date", "stdlib-pdf", ".stdlib-pdf.up2date",
     "tests", "test", "docutils", "docutils-html", ".docutils-html.up2date",
     "docutils-pdf", ".docutils-pdf.up2date"}

Nodes == Targets \cup Files

(***************************************************************************)
(*                 What a recipe line does to the file system              *)
(***************************************************************************)
\* An item of a directory: the path below the directory, what wrote it, the
\* number of source edits and of make invocations at the time it was
\* written, and whether the writer completed it.
Item(p, by, done) == [p |-> p, by |-> by, v |-> edits, r |-> runs, ok |-> done]

IsPrefix(pre, p) == Len(pre) <= Len(p) /\ SubSeq(p, 1, Len(pre)) = pre

\* Writing `new` over `items`: an item replaces the one at the same path.
Put(items, new) == {i \in items : \A n \in new : n.p # i.p} \cup new

Prefixed(items, pre) == {[i EXCEPT !.p = pre \o i.p] : i \in items}

\* pre names a directory among items.
HasDir(items, pre) ==
    pre = <<>> \/ \E i \in items : IsPrefix(pre, i.p) /\ Len(i.p) > Len(pre)

\* What the shell glob d/* expands to.
Glob(d) == {IF i.p = <<>> THEN "" ELSE i.p[1] : i \in dir[d]}

Basename(f) ==
    CASE f = "doc/index.html"         -> <<"index.html">>
      [] f = "doc/inh_example.py"     -> <<"inh_example.py">>
      [] f = "doc/doctest"            -> <<"doctest", "index.html">>
      [] f = "doc/epydoc-man.html"    -> <<"epydoc-man.html">>
      [] f = "doc/epydocgui-man.html" -> <<"epydocgui-man.html">>
      [] f = HTML_API                 -> <<"api">>
      [] f = HTML_EXAMPLES            -> <<"examples">>
      [] f = "src/epydoc/test/a.doctest" -> <<"a.html">>
      [] f = "src/epydoc/test/b.doctest" -> <<"b.html">>
      [] OTHER                        -> <<f>>

\* The file system as a record, and the current one.
FS == [mtime |-> mtime, dex |-> dex, dir |-> dir, content |-> content,
       remote |-> remote, clock |-> clock, out |-> out]

Written(fs, f) ==
    [fs EXCEPT !.clock = fs.clock + 1, !.mtime[f] = fs.clock + 1]

Removed(fs, paths) ==
    LET gone == UNION {Tree(d) : d \in paths \cap Dirs}
    IN  [fs EXCEPT
           !.dex = fs.dex \ gone,
           !.dir = [d \in Dirs |-> IF d \in gone THEN {} ELSE fs.dir[d]],
           !.mtime = [f \in Files |-> IF f \in paths THEN 0 ELSE fs.mtime[f]],
           !.content = [f \in DOMAIN fs.content |->
                          IF f \in paths THEN "none" ELSE fs.content[f]]]

\* Where `cp -r src dst/pre` puts the copy: at dst/pre, or inside it when
\* dst/pre is already a directory.
CopyAt(l) ==
    IF HasDir(dir[l.b], l.c) THEN l.c \o Basename(l.a) ELSE l.c

\* The line can exit 0 in the current file system.
CanSucceed(l) ==
    CASE l.op = "rst2html" -> l.b \in dex
      [] l.op = "cpdocs"   -> l.b \in dex
      [] l.op = "cpdir"    -> l.a \in dex /\ l.b \in dex
      [] l.op = "cpglob"   ->
             /\ Glob(l.a) # {}
             /\ l.b \in dex
             /\ HasDir(dir[l.b], l.c) \/ Cardinality(Glob(l.a)) = 1
      [] l.op = "cpfile"   -> l.b \in dex /\ \E i \in dir[l.a[1]] : i.p = l.a[2]
      [] l.op = "rsync"    ->
             IF l.b = <<>> THEN Glob(l.a) # {} ELSE l.a \in dex
      [] OTHER             -> TRUE

\* The status with which the shell rejects a command it cannot parse.  The
\* loop of the doctest-html recipe ends with `fi\` and, on the next line, a
\* tab and `done`: a make that removes the tab after the backslash-newline
\* (POSIX, GNU make 3.81 and later) hands the shell the word `fidone`, and
\* the shell converts nothing; an older make hands it `fi done`.
SyntaxError == 2

\* The ways the line can end: <<exit status, detail>>.  The detail is the
\* number of doctests converted (rst2html loop), whether man2html itself
\* succeeded (the pipeline's status is that of its last sed), or whether
\* rsync had transferred the files before it failed.
Outcomes(l) ==
    (IF CanSucceed(l)
     THEN CASE l.op = "rst2html" -> {<<0, Len(l.a)>>}
            [] l.op = "man2html" -> {<<0, 1>>, <<0, 0>>}
            [] OTHER             -> {<<0, 1>>}
     ELSE {})
    \cup
    (CASE l.op = "rst2html" -> {<<1, k>> : k \in 0..(Len(l.a) - 1)}
                                   \cup {<<SyntaxError, 0>>}
       [] l.op = "rsync"    -> IF CanSucceed(l) THEN {<<1, 0>>, <<1, 1>>}
                                                ELSE {<<1, 0>>}
       [] OTHER             -> {<<1, 0>>})

\* The file system after line l ended as o.
Effect(l, o) ==
    LET fs == FS
        ok == o[1] = 0
    IN
    CASE l.op = "echo" ->
             IF ok THEN [fs EXCEPT !.out = Append(fs.out, l.a)] ELSE fs
      [] l.op = "submake" ->
             IF l.a = "clean"
             THEN IF ok THEN Removed(fs, {SRC_DIST}) ELSE fs
             ELSE [fs EXCEPT
                     !.dex = fs.dex \cup {SRC_DIST},
                     !.dir[SRC_DIST] =
                         {Item(<<"epydoc.tar.gz">>, <<"sdist", "src/">>, ok)}]
      [] l.op = "rmrf"  -> IF ok THEN Removed(fs, l.a) ELSE fs
      [] l.op = "rmglob" -> IF ok THEN [fs EXCEPT !.dir[l.a] = {}] ELSE fs
      [] l.op = "mkdir" ->
             IF ok THEN [fs EXCEPT !.dex = fs.dex \cup Chain(l.a)] ELSE fs
      [] l.op = "touch" -> IF ok THEN Written(fs, l.a) ELSE fs
      [] l.op = "epydoc" ->
             [fs EXCEPT
                !.dex = fs.dex \cup Chain(l.a),
                !.dir[l.a] = Put(fs.dir[l.a], {Item(l.b, l.c, ok)})]
      [] l.op = "profile" ->
             LET w == [fs EXCEPT
                         !.dex = fs.dex \cup {l.a},
                         !.dir[l.a] = {Item(<<>>, <<"html,profile", "src/epydoc/">>, ok)}]
             IN  IF ok THEN Written(w, l.b) ELSE w
      [] l.op = "rst2html" ->
             IF l.b \in dex
             THEN [fs EXCEPT !.dir[l.b] =
                     Put(fs.dir[l.b],
                         {Item(Basename(l.a[k]), <<"rst2html", l.a[k]>>, TRUE) :
                              k \in 1..o[2]})]
             ELSE fs
      [] l.op = "man2html" ->
             [Written(fs, l.b) EXCEPT
                !.content[l.b] = IF ok /\ o[2] = 1 THEN "man page" ELSE "damaged"]
      [] l.op = "cpdocs" ->
             IF ok
             THEN [fs EXCEPT !.dir[l.b] =
                     Put(fs.dir[l.b],
                         {Item(Basename(l.a[k]), <<"cp", l.a[k]>>, TRUE) :
                              k \in 1..Len(l.a)})]
             ELSE fs
      [] l.op = "cpdir" ->
             IF ok
             THEN [fs EXCEPT !.dir[l.b] =
                     Put(fs.dir[l.b], Prefixed(fs.dir[l.a], CopyAt(l)))]
             ELSE fs
      [] l.op = "cpglob" ->
             IF ok
             THEN [fs EXCEPT !.dir[l.b] =
                     Put(fs.dir[l.b],
                         IF HasDir(fs.dir[l.b], l.c)
                         THEN Prefixed(fs.dir[l.a], l.c)
                         ELSE {[i EXCEPT !.p = IF i.p = <<>> THEN l.c ELSE l.c \o Tail(i.p)] :
                                  i \in fs.dir[l.a]})]
             ELSE fs
      [] l.op = "cpfile" ->
             IF ok
             THEN [fs EXCEPT !.dir[l.b] =
                     Put(fs.dir[l.b],
                         {[i EXCEPT !.p = l.c] : i \in {j \in fs.dir[l.a[1]] : j.p = l.a[2]}})]
             ELSE fs
      [] l.op = "rsync" ->
             IF ok \/ o[2] = 1
             THEN [fs EXCEPT !.remote = Put(fs.remote, Prefixed(fs.dir[l.a], l.b))]
             ELSE fs
      [] OTHER -> fs

(***************************************************************************)
(*                        make: one invocation                             *)
(***************************************************************************)
\* The modification time make sees for node n; a name that is no file of the
\* tree (a phony target, an alias) has none.
Mt(n) == IF n \in Files THEN mtime[n] ELSE 0

\* The order in which make considers the nodes of a goal: depth first, the
\* prerequisites of a target in the order written, each node once.
RECURSIVE Visit(_, _, _), VisitAll(_, _, _)
Visit(t, docs, acc) ==
    IF t \in Range(acc) THEN acc
    ELSE Append(VisitAll(PrereqsOf(t, docs), docs, acc), t)
VisitAll(ps, docs, acc) ==
    IF ps = <<>> THEN acc
    ELSE VisitAll(Tail(ps), docs, Visit(Head(ps), docs, acc))

OrderOf(g, docs) == Visit(g, docs, <<>>)

\* Target t has to be remade: it is phony, or does not exist, or one of its
\* prerequisites does not exist as a file or is newer than t.
MustMake(t) ==
    \/ t \in Phony
    \/ Mt(t) = 0
    \/ \E p \in Range(Prereqs(t)) : Mt(p) = 0 \/ Mt(p) > Mt(t)

Running == {n \in Nodes : st[n] = "run"}
Failed  == {n \in Nodes : st[n] = "failed"}

\* make exits once no recipe is running and either a recipe has failed or
\* every node of the goal is done: with status 2 in the first case, 0 in
\* the second.  s is the status of the nodes.
Exits(s)      == /\ \A n \in Nodes : s[n] # "run"
                 /\ \/ \E n \in Nodes : s[n] = "failed"
                    \/ \A n \in Nodes : s[n] # "todo"
ExitStatus(s) == IF \E n \in Nodes : s[n] = "failed" THEN 2 ELSE 0

\* The node make turns to next: the first one, in the order it walks the
\* graph, that is not yet considered and whose prerequisites are all done.
FirstReady ==
    LET idx == {i \in 1..Len(order) :
                   /\ st[order[i]] = "todo"
                   /\ \A p \in Range(Prereqs(order[i])) : st[p] = "done"}
    IN  IF idx = {} THEN "" ELSE order[CHOOSE i \in idx : \A j \in idx : i <= j]

\* The user changes a source file between two invocations.  (Before the
\* first invocation nothing is built, so an edit there changes no outcome;
\* after the last one nothing observes it.)
Editable == Range(PY_SRCFILES) \cup Range(EXAMPLES_SRC) \cup {DOCTESTS[1]}

Edit(f) ==
    /\ mk = Current
    /\ phase = "done"
    /\ runs < MaxRuns
    /\ edits < MaxEdits
    /\ edits' = edits + 1
    /\ ver' = [ver EXCEPT ![f] = edits + 1]
    /\ clock' = clock + 1
    /\ mtime' = [mtime EXCEPT ![f] = clock + 1]
    /\ hist' = [hist EXCEPT !.pending = hist.pending \cup {f}]
    /\ UNCHANGED <<mk, dex, dir, content, remote, runs, phase, goal, jobs, wild,
                   order, st, pc, ran, out, exit, launcherVars>>

\* `make -j j g`: read the Makefile, then walk the goal's graph.  A goal (or a
\* prerequisite) that is neither a target of a rule nor an existing file
\* ends the run with "No rule to make target".
Make(g, j, limit) ==
    /\ mk = Current
    /\ phase # "running"
    /\ runs < limit
    /\ runs' = runs + 1
    /\ goal' = g
    /\ jobs' = j
    /\ wild' = Wildcard(mtime)
    /\ pc' = [n \in Nodes |-> 0]
    /\ ran' = {}
    /\ out' = <<>>
    /\ hist' = [again |-> phase = "done" /\ exit = 0 /\ goal = g,
                edited |-> hist.pending, pending |-> {}]
    /\ LET ord    == OrderOf(g, Wildcard(mtime))
           norule == {n \in Range(ord) : n \notin Targets /\ Mt(n) = 0}
       IN  IF norule # {}
           THEN /\ phase' = "done"
                /\ exit' = 2
                /\ order' = <<>>
                /\ st' = [n \in Nodes |-> "none"]
           ELSE /\ phase' = "running"
                /\ exit' = 0
                /\ order' = ord
                /\ st' = [n \in Nodes |->
                            IF n \notin Range(ord) THEN "none"
                            ELSE IF n \in Targets THEN "todo" ELSE "done"]
    /\ UNCHANGED <<mk, fsVars, launcherVars>>

\* `make g`
Invoke(g) == Make(g, 1, MaxRuns)

\* `make -j j g`, for the goals with more than one recipe
ParGoals == {"webpage", "distributions", "local", "docutils"}
InvokeJ(g, j) == Make(g, j, MaxParRuns)

\* make considers target t, all of whose prerequisites are done: it starts
\* the recipe when t has to be remade, and is done with t otherwise.
Start(t) ==
    /\ phase = "running"
    /\ st[t] = "todo"
    /\ Failed = {}
    /\ t = FirstReady
    /\ Cardinality(Running) < jobs
    /\ st' = [st EXCEPT ![t] =
                 IF MustMake(t) /\ Recipe(t) # <<>> THEN "run" ELSE "done"]
    /\ phase' = IF Exits(st') THEN "done" ELSE "running"
    /\ exit' = ExitStatus(st')
    /\ UNCHANGED <<mk, fsVars, runs, goal, jobs, wild, order, pc, ran, out, hist,
                   launcherVars>>

\* A recipe whose lines' exit statuses are ignored (as with a leading `-`).
StatusIgnored(t, n, code) ==
    IF n = Len(Recipe(t)) THEN "done" ELSE "run"

\* The status of target t after line n of its recipe exited with code: no
\* recipe line of these Makefiles is prefixed with `-`, so a non-zero exit
\* ends the recipe and fails the target.
StatusAfter(t, n, code) ==
    IF code # 0 THEN "failed"
    ELSE IF n = Len(Recipe(t)) THEN "done" ELSE "run"

\* The shell runs the next line of t's recipe, which ends as o.  A line that
\* exits non-zero ends the recipe.
Step(t) ==
    /\ phase = "running"
    /\ st[t] = "run"
    /\ LET n == pc[t] + 1
           l == Recipe(t)[n]
       IN  \E o \in Outcomes(l) :
             LET fs == Effect(l, o)
             IN  /\ mtime' = fs.mtime
                 /\ dex' = fs.dex
                 /\ dir' = fs.dir
                 /\ content' = fs.content
                 /\ remote' = fs.remote
                 /\ clock' = fs.clock
                 /\ out' = fs.out
                 /\ ran' = ran \cup {<<t, n, o[1]>>}
                 /\ pc' = [pc EXCEPT ![t] = n]
                 /\ st' = [st EXCEPT ![t] = StatusAfter(t, n, o[1])]
    /\ phase' = IF Exits(st') THEN "done" ELSE "running"
    /\ exit' = ExitStatus(st')
    /\ UNCHANGED <<mk, ver, edits, runs, goal, jobs, wild, order, hist,
                   launcherVars>>

\* The goals make is invoked with: plain `make` (the default goal, all), the
\* goals the usage text advertises, the three unadvertised top-level goals
\* and the webpage sentinel.  (web and xfer, tests, checkdoc are aliases.)
Goals == {"all", "local", "stdlib-pdf", "docutils", ".webpage.up2date"}
            \cup (Range(UsageLines) \ {""})

LauncherIdle ==
    /\ lpc = "exit0"
    /\ sysPath = <<ScriptDir>>
    /\ installed = FALSE
    /\ pywImportable = FALSE
    /\ bound = {}
    /\ exc = "none"
    /\ guiCalls = 0

\* A fresh checkout: the sources exist, nothing has been built.
Checkout ==
    /\ mtime = [f \in Files |-> IF f \in SourceFiles THEN 1 ELSE 0]
    /\ ver = [f \in SourceFiles |-> 0]
    /\ dex = {LOCALDIR}
    /\ dir = [d \in Dirs |-> {}]
    /\ content = [f \in Range(ManHtml) |-> "none"]
    /\ remote = {}
    /\ clock = 1
    /\ edits = 0
    /\ runs = 0
    /\ phase = "idle"
    /\ goal = ""
    /\ jobs = 1
    /\ wild = <<>>
    /\ order = <<>>
    /\ st = [n \in Nodes |-> "none"]
    /\ pc = [n \in Nodes |-> 0]
    /\ ran = {}
    /\ out = <<>>
    /\ exit = 0
    /\ hist = [again |-> FALSE, edited |-> {}, pending |-> {}]

(***************************************************************************)
(*                            Specifications                               *)
(***************************************************************************)
InitLauncher == LauncherStart /\ mk = "none" /\ Checkout
NextLauncher == Interp
SpecLauncher == InitLauncher /\ [][NextLauncher]_vars

Init == LauncherIdle /\ mk = Current /\ Checkout
Next ==
    \/ \E g \in Goals : Invoke(g)
    \/ \E t \in Targets : Start(t)
    \/ \E t \in Targets : Step(t)
    \/ \E f \in Editable : Edit(f)
Spec == Init /\ [][Next]_vars

NextPar ==
    \/ \E g \in ParGoals, j \in 1..MaxJobs : InvokeJ(g, j)
    \/ \E t \in Targets : Start(t)
    \/ \E t \in Targets : Step(t)
SpecPar == Init /\ [][NextPar]_vars

(***************************************************************************)
(*        The usage text of each Makefile revision, and its rules          *)
(***************************************************************************)
Revisions == {Current, "part_001", "part_002", "part_003a", "part_003b"}

\* The goal each line echoed by the usage recipe advertises as `make <goal>`
\* ("" for the heading line).
UsageOf(m) ==
    CASE m = Current     -> UsageLines
      [] m = "part_001"  -> <<"", "web", "refdocs", "checkdoc", "distributions">>
      [] m = "part_002"  -> <<"", "webpage", "refdocs", "checkdoc", "distributions",
                              "clean", "stdlib">>
      [] m = "part_003a" -> <<"", "webpage", "refdocs", "checkdoc", "distributions",
                              "clean">>
      [] m = "part_003b" -> <<"", "webpage", "refdocs", "examples", "checkdoc",
                              "distributions", "clean", "stdlib">>

\* The targets defined by the rules of each revision.
TargetsOf(m) ==
    CASE m = Current     -> Targets
      [] m = "part_001"  ->
             {"all", "usage", "distributions", "web", "webpage", "xfer", "examples",
              ".up2date.examples", "local", "refdocs", ".up2date.refdocs",
              "checkdocs", "verbose"}
      [] m = "part_002"  ->
             {"all", "usage", "clean", "distributions", "src/dist/.up2date", "web",
              "webpage", "xfer", "local", "checkdocs", ".html.up2date", "refdocs",
              ".refdocs.up2date", "examples", ".examples.up2date", "stdlib"}
      [] m = "part_003a" ->
             {"all", "usage", "clean", "distributions", "src/dist/.up2date", "web",
              "webpage", "xfer", "local", "checkdocs", ".html.up2date", "refdocs",
              ".up2date.refdocs", "examples", ".up2date.examples"}
      [] m = "part_003b" ->
             {"all", "usage", "clean", "distributions", ".distributions.up2date",
              "web", "webpage", "xfer", "local", "checkdocs", ".html.up2date",
              "refdocs", ".refdocs.up2date", "examples", ".examples.up2date",
              "doc/epydoc-man.html", "doc/epydocgui-man.html", "stdlib",
              ".stdlib.up2date"}

\* `make` or `make usage`: the usage recipe echoes its next line.
ShowUsage ==
    /\ mk \in Revisions
    /\ Len(out) < Len(UsageOf(mk))
    /\ out' = Append(out, UsageOf(mk)[Len(out) + 1])
    /\ UNCHANGED <<mk, fsVars, runs, phase, goal, jobs, wild, order, st, pc, ran,
                   exit, hist, launcherVars>>

\* `make g` for a goal g the usage text has shown: make looks g up among the
\* targets of its rules.  No file of the tree is named like a goal, so a
\* goal without a rule stops make with "No rule to make target".
Request(g) ==
    /\ mk \in Revisions
    /\ g \in Range(out) \ {""}
    /\ goal' = g
    /\ phase' = IF g \in TargetsOf(mk) THEN "resolved" ELSE "norule"
    /\ exit'  = IF g \in TargetsOf(mk) THEN 0 ELSE 2
    /\ UNCHANGED <<mk, fsVars, runs, jobs, wild, order, st, pc, ran, out, hist,
                   launcherVars>>

AllGoalNames == UNION {Range(UsageOf(m)) : m \in Revisions}

InitUsage == LauncherIdle /\ mk \in Revisions /\ Checkout
NextUsage ==
    \/ ShowUsage
    \/ \E g \in AllGoalNames : Request(g)
SpecUsage == InitUsage /\ [][NextUsage]_vars

(***************************************************************************)
(*                               Claims                                    *)
(***************************************************************************)
LauncherEnded == lpc \in {"exit0", "traceback"}

\* C1 (as stated): on every run in which the epydoc package is importable
\* once sys.path[0] has been removed, the launcher removes that entry, then
\* imports epydoc.gui, and enters gui() exactly once.
C1_GuiReachedWhenImportable ==
    (LauncherEnded /\ FindEpydoc(Tail(sysPath)) = "package")
        => (guiCalls = 1 /\ exc = "none")

\* C7: a failure of a launcher statement is not caught: once a statement has
\* raised, the script has ended with the traceback, gui was never imported
\* and gui() never entered.
C7_FailureEndsScript ==
    exc # "none" => (lpc = "traceback" /\ guiCalls = 0 /\ "gui" \notin bound)

\* The search-path adjustment of line 11 has failed and ended the script.
C7_Witness ==
    /\ exc = "TypeError"
    /\ lpc = "traceback"
    /\ "sys" \in bound
    /\ installed

\* C8 (as stated): in every revision, a goal that the usage text advertises
\* is the target of a rule, so requesting it never ends with "No rule to
\* make target".
C8_AdvertisedGoalsHaveRules ==
    goal \in (Range(out) \ {""}) => phase # "norule"

\* The recipe of t ran to its last line in this invocation, every line
\* exiting 0; some line of the recipe of t ran in this invocation.
RanAll(t) == \A n \in 1..Len(Recipe(t)) : <<t, n, 0>> \in ran
RanAny(t) == \E e \in ran : e[1] = t

\* The tree is as the current invocation left (or is leaving) it.
Untouched == phase = "running" \/ (phase = "done" /\ hist.pending = {})

FilePrereqs(t) == Range(Prereqs(t)) \cap Files

\* t exists and none of its prerequisite files is newer.
UpToDate(t) == Mt(t) > 0 /\ \A p \in FilePrereqs(t) : Mt(p) > 0 /\ Mt(p) <= Mt(t)

\* C2 (as stated): once the recipe of a sentinel's rule has succeeded, the
\* sentinel exists and is newer than every prerequisite of the rule.
C2_SentinelTouchedLast ==
    \A s \in Sentinels :
        (Untouched /\ RanAll(s))
            => (Mt(s) > 0 /\ \A p \in FilePrereqs(s) : Mt(s) > Mt(p))

\* C3 (as stated): when one of these goals has just succeeded and no source
\* has changed since, invoking the same goal again executes no recipe line.
RebuildGoals == {"api-html", "api-pdf", "doctest-html", "examples", "stdlib-html",
                 ".webpage.up2date", "distributions"}

C3_SecondRunDoesNothing ==
    (goal \in RebuildGoals /\ hist.again /\ hist.edited = {}) => ran = {}

\* C4: a recipe line that exits non-zero ends its recipe (no later line of
\* it runs, so its sentinel is not touched) and fails its target; no target
\* that depends on the failed one runs any recipe line; and make, once it
\* has stopped, reports status 2.  Without -j it stops at once.
C4_FailureStopsBuild ==
    \A e \in ran :
        e[3] # 0 =>
            /\ st[e[1]] = "failed"
            /\ \A f \in ran : f[1] = e[1] => f[2] <= e[2]
            /\ \A u \in Targets \ {e[1]} :
                   e[1] \in Range(OrderOf(u, DOCS))
                       => (~RanAny(u) /\ st[u] \in {"todo", "none"})
            /\ phase = "done" => exit = 2
            /\ jobs = 1 => phase = "done"

\* `make webpage` has stopped on the failure of the epydoc line of the
\* api-html recipe: the sentinel is absent, nothing assembled or sent.
C4_Witness ==
    /\ phase = "done" /\ exit = 2 /\ goal = "webpage"
    /\ <<".api-html.up2date", 3, 1>> \in ran
    /\ Mt(".api-html.up2date") = 0
    /\ ~RanAny(".webpage.up2date")
    /\ ~RanAny("xfer")
    /\ remote = {}

\* C5 (as stated): after a successful `make clean` nothing that a rule of
\* the Makefile creates is left in the tree.
C5_CleanRemovesAllBuilt ==
    (phase = "done" /\ goal = "clean" /\ exit = 0)
        => /\ dex \cap {WEBDIR, HTML, LATEX, PROFILE_TMP} = {}
           /\ \A f \in GenFiles : Mt(f) = 0

\* C6: after a successful `make webpage` the remote document root holds
\* api/ as copied from html/api, epydoc.pdf as copied from
\* latex/api/api.pdf, stdlib/ as copied from html/stdlib, and examples/ with
\* grouped/, listed/ and included/, each generated completely from
\* doc/inh_example.py with the inheritance style of its name.
StyleOption(style) ==
    CASE style = "grouped"  -> "html,inheritance=grouped"
      [] style = "listed"   -> "html,inheritance=listed"
      [] style = "included" -> "html,inheritance=included"

C6_RemoteHasLinkedPaths ==
    (phase = "done" /\ goal = "webpage" /\ exit = 0) =>
        /\ dir[HTML_API] # {}
        /\ Prefixed(dir[HTML_API], <<"api">>) \subseteq remote
        /\ \E i \in dir[LATEX_API] :
               /\ i.p = <<"api.pdf">> /\ i.ok
               /\ [i EXCEPT !.p = <<"epydoc.pdf">>] \in remote
        /\ dir[HTML_STDLIB] # {}
        /\ Prefixed(dir[HTML_STDLIB], <<"stdlib">>) \subseteq remote
        /\ \E i \in remote : i.p = <<"examples">> /\ i.ok
        /\ \A style \in {"grouped", "listed", "included"} :
               \E i \in remote :
                   /\ i.p = <<"examples", style>>
                   /\ i.by = <<StyleOption(style), "doc/inh_example.py">>
                   /\ i.ok
        /\ \A i \in remote : i.ok

C6_Witness ==
    /\ phase = "done" /\ goal = "webpage" /\ exit = 0
    /\ RanAll("xfer")
    /\ \E i \in remote : i.p = <<"examples", "grouped">>

\* C9: an rsync line of xfer, or a line of the distributions recipe, runs
\* only when the test recipe has exited 0 in this invocation and
\* .webpage.up2date is up to date; when the test recipe has failed, no line
\* of xfer or of the distributions recipe runs.  With and without -j.
C9_TestsGatePublishing ==
    /\ (Untouched /\ (RanAny("xfer") \/ RanAny(".distributions.up2date")))
           => /\ <<"test", 1, 0>> \in ran
              /\ st[".webpage.up2date"] = "done"
              /\ UpToDate(".webpage.up2date")
    /\ <<"test", 1, 1>> \in ran
           => /\ ~RanAny("xfer")
              /\ ~RanAny(".distributions.up2date")
              /\ Mt(".distributions.up2date") = 0 \/ runs > 1

\* Under -j 2 the test recipe failed while the api-html recipe ran beside
\* it to its end: nothing was sent.
C9_Witness ==
    /\ jobs = 2 /\ phase = "done" /\ exit = 2 /\ goal = "webpage"
    /\ <<"test", 1, 1>> \in ran
    /\ RanAll(".api-html.up2date")
    /\ remote = {}

\* `make webpage` follows a successful `make webpage`, a Python source
\* having been changed in between.
AfterPyEdit ==
    /\ goal = "webpage"
    /\ hist.again
    /\ hist.edited \cap Range(PY_SRCFILES) # {}

Regenerated == {"profile.out", ".api-html.up2date", ".api-pdf.up2date",
                ".examples.up2date"}

\* C10 (as stated): in that invocation profile.out, api-html, api-pdf,
\* examples and stdlib-html have all been re-run when the webpage assembly
\* starts.
C10_AllFiveBeforeAssembly ==
    (AfterPyEdit /\ RanAny(".webpage.up2date"))
        => \A t \in Regenerated \cup {".stdlib-html.up2date"} : RanAll(t)

\* C10 (amended): in that invocation profile.out, api-html, api-pdf and
\* examples have been re-run when the webpage assembly starts; rsync runs
\* only after the assembly and after stdlib-html has been re-run; a
\* successful invocation does all of it; and the epydoc output that rsync
\* publishes was generated after the change.
C10_StalenessPropagates ==
    AfterPyEdit =>
        /\ RanAny(".webpage.up2date") => \A t \in Regenerated : RanAll(t)
        /\ RanAny("xfer") =>
               /\ RanAll(".webpage.up2date")
               /\ RanAll(".stdlib-html.up2date")
               /\ \A i \in dir[WEBDIR] \cup dir[HTML_STDLIB] :
                      i.by[1] \notin {"cp", "rst2html"}
                          => \A f \in Range(PY_SRCFILES) : i.v >= ver[f]
        /\ (phase = "done" /\ exit = 0) => RanAll("xfer")

C10_Witness ==
    /\ AfterPyEdit
    /\ phase = "done" /\ exit = 0
    /\ RanAll("xfer")
    /\ \E i \in remote : i.p = <<"api">> /\ i.v = 1

\* C11 (as stated): when the last conversion of a man page failed (man2html
\* exited non-zero or was not found), the HTML file is not left as an
\* existing, up-to-date target, the recipe that ran it has failed, and the
\* webpage assembly does not run in that invocation.
C11_ManFailureAbortsBuild ==
    \A k \in 1..Len(ManHtml) :
        (Untouched /\ content[ManHtml[k]] = "damaged")
            => /\ ~UpToDate(ManHtml[k])
               /\ RanAny(ManHtml[k])
                      => /\ st[ManHtml[k]] = "failed"
                         /\ ~RanAny(".webpage.up2date")

\* The loop line of the doctest-html recipe, and the doctest pages present.
DoctestLoop == 3
Converted(k) == \E i \in dir[HTML_DOCTEST] : i.p = Basename(DOCTESTS[k])

\* C12 (as stated): the loop of the doctest-html recipe ends either with
\* every doctest converted, or with `exit 1` at the first doctest whose
\* conversion failed, the doctests before it converted and none after it;
\* the sentinel is touched in this invocation only in the first case.
C12_DoctestLoopStopsAtFirstFailure ==
    \A e \in ran :
        (Untouched /\ e[1] = ".doctest-html.up2date" /\ e[2] = DoctestLoop) =>
            /\ e[3] \in {0, 1}
            /\ e[3] = 0 => \A k \in 1..Len(DOCTESTS) : Converted(k)
            /\ e[3] = 1 =>
                   /\ \E k \in 1..Len(DOCTESTS) :
                          \A j \in 1..Len(DOCTESTS) : Converted(j) <=> j < k
                   /\ <<e[1], DoctestLoop + 1, 0>> \notin ran

\* The components the webpage is assembled from.
Components == {".api-html.up2date", ".examples.up2date", ".api-pdf.up2date",
               ".doctest-html.up2date", "doc/epydoc-man.html",
               "doc/epydocgui-man.html"}

\* C13: in an invocation in which the recipe of .webpage.up2date has been
\* started, make is done with each of the six components, and each exists
\* and is not older than any of its prerequisites.
C13_AssemblyAfterComponents ==
    (Untouched /\ (st[".webpage.up2date"] = "run" \/ RanAny(".webpage.up2date")))
        => \A c \in Components : st[c] = "done" /\ UpToDate(c)

\* The assembly is run again after a source was edited.
C13_Witness ==
    /\ runs = 2 /\ hist.edited # {} /\ phase = "running"
    /\ st[".webpage.up2date"] = "run"
    /\ <<".webpage.up2date", 1, 0>> \in ran
    /\ RanAll(".api-html.up2date")

\* The output directory each generation sentinel stands for.
Guarded(s) ==
    CASE s = ".api-html.up2date"     -> HTML_API
      [] s = ".api-pdf.up2date"      -> LATEX_API
      [] s = ".doctest-html.up2date" -> HTML_DOCTEST
      [] s = ".examples.up2date"     -> HTML_EXAMPLES
      [] s = ".stdlib-html.up2date"  -> HTML_STDLIB

GenSentinels == {".api-html.up2date", ".api-pdf.up2date", ".doctest-html.up2date",
                 ".examples.up2date", ".stdlib-html.up2date"}

\* s exists and is newer than every prerequisite of its rule.
IsCurrent(s) == Mt(s) > 0 /\ \A p \in FilePrereqs(s) : Mt(p) > 0 /\ Mt(s) > Mt(p)

\* The directory exists and all it holds was written completely by one and
\* the same invocation of make.
OneCompleteRun(d) ==
    /\ d \in dex
    /\ dir[d] # {}
    /\ \A i \in dir[d] : i.ok
    /\ \A i, j \in dir[d] : i.r = j.r

\* C14 (as stated): between invocations, whenever a generation sentinel is
\* current, the directory it stands for exists and holds only the complete
\* output of one run of its recipe.
C14_CurrentSentinelMeansFreshOutput ==
    phase = "done" =>
        \A s \in GenSentinels : IsCurrent(s) => OneCompleteRun(Guarded(s))

(***************************************************************************)
(*        The historical Makefiles: sentinels and conditional rebuild      *)
(***************************************************************************)
HistRevisions == Revisions \ {Current}

\* One representative file for each wildcard of the configuration section.
HistSources == {"src/epydoc/cli.py", "doc/inh_example.py", "doc/index.html",
                "man/epydoc.1", "man/epydocgui.1"}
HistSentinels == {".up2date.refdocs", ".up2date.examples", ".refdocs.up2date",
                  ".examples.up2date", ".html.up2date", ".stdlib.up2date",
                  ".distributions.up2date", "src/dist/.up2date"}
HistFiles == HistSources \cup HistSentinels \cup Range(ManHtml)
HistNodes(m) == TargetsOf(m) \cup HistSources

HistPhony(m) ==
    CASE m = "part_001"  -> {"all", "usage", "distributions", "web", "webpage",
                             "xfer", "refdocs", "verbose"}
      [] m = "part_002"  -> {"all", "usage", "clean", "distributions", "web",
                             "webpage", "xfer", "local", "checkdocs", "refdocs",
                             "examples", "stdlib"}
      [] m = "part_003a" -> {"all", "usage", "distributions", "web", "webpage",
                             "xfer", "refdocs", "verbose"}
      [] m = "part_003b" -> {"all", "usage", "clean", "distributions", "web",
                             "webpage", "xfer", "local", "checkdocs", "refdocs",
                             "examples", "stdlib"}

HistPySrc   == <<"src/epydoc/cli.py">>
HistExSrc   == <<"doc/inh_example.py">>
HistDocs    == <<"doc/index.html">>

\* The rules of revision m: the prerequisites of target t.
HistRule(m, t) ==
    CASE t \in {"web", "webpage"} -> <<"xfer">>
      [] t = "all" -> <<"usage">>
      [] t = "xfer" ->
             CASE m = "part_001"  -> <<"refdocs", "examples">>
               [] m = "part_003b" -> <<".html.up2date", "stdlib">>
               [] OTHER           -> <<".html.up2date">>
      [] t = "local" ->
             IF m = "part_001" THEN <<"refdocs">> ELSE <<".html.up2date">>
      [] t = ".html.up2date" ->
             CASE m = "part_002"  -> <<"refdocs", "examples">>
               [] m = "part_003a" -> <<"refdocs", "examples", "distributions">>
               [] OTHER           -> <<".refdocs.up2date", ".examples.up2date",
                                       "doc/epydoc-man.html",
                                       "doc/epydocgui-man.html">> \o HistDocs
      [] t = "refdocs" ->
             IF m \in {"part_001", "part_003a"} THEN <<".up2date.refdocs">>
             ELSE <<".refdocs.up2date">>
      [] t = "examples" ->
             IF m \in {"part_001", "part_003a"} THEN <<".up2date.examples">>
             ELSE <<".examples.up2date">>
      [] t \in {".up2date.refdocs", ".refdocs.up2date"} -> HistPySrc
      [] t \in {".up2date.examples", ".examples.up2date"} ->
             IF m = "part_001" THEN HistExSrc ELSE HistExSrc \o HistPySrc
      [] t = "distributions" ->
             CASE m = "part_001"  -> <<>>
               [] m = "part_003b" -> <<".distributions.up2date">>
               [] OTHER           -> <<"src/dist/.up2date">>
      [] t = "src/dist/.up2date" -> HistPySrc
      [] t = ".distributions.up2date" ->
             HistPySrc \o <<".html.up2date">> \o HistDocs
      [] t = "stdlib" -> IF m = "part_003b" THEN <<".stdlib.up2date">> ELSE <<>>
      [] t = ".stdlib.up2date" -> HistPySrc
      [] t = "doc/epydoc-man.html" -> <<"man/epydoc.1">>
      [] t = "doc/epydocgui-man.html" -> <<"man/epydocgui.1">>
      [] OTHER -> <<>>

\* The kinds of recipe line: "gen" prepares or generates documentation,
\* "asm" assembles the webpage directory, "pub" copies it to its
\* destination, "touch" and "write" create the file a, "sub" is the
\* sub-make in src and "cmd" anything else.
Gen     == Line("gen", "", "", "")
Asm     == Line("asm", "", "", "")
Pub     == Line("pub", "", "", "")
GenRecipe(s) == <<Gen, Gen, Gen, Touch(s)>>

\* The recipes of revision m, for the targets that the goals local, webpage
\* and distributions reach.
HistRecipe(m, t) ==
    CASE t = "xfer" ->
             CASE m = "part_001"  -> <<Asm, Asm, Asm, Asm, Asm, Pub>>
               [] m = "part_003b" -> <<Pub, Pub>>
               [] OTHER           -> <<Pub>>
      [] t = "local" -> <<Pub>>
      [] t = ".html.up2date" ->
             CASE m = "part_002"  -> <<Asm, Asm, Asm, Asm, Asm>>
               [] m = "part_003a" -> <<Asm, Asm, Asm, Asm, Asm, Asm>>
               [] OTHER           -> <<Asm, Asm, Asm, Asm, Asm, Touch(".html.up2date")>>
      [] t \in {".up2date.refdocs", ".up2date.examples"} ->
             IF m = "part_001" THEN <<Gen, Gen, Touch(t)>> ELSE GenRecipe(t)
      [] t \in {".refdocs.up2date", ".examples.up2date", ".stdlib.up2date"} ->
             GenRecipe(t)
      [] t = "stdlib" -> IF m = "part_002" THEN <<Gen, Gen, Gen>> ELSE <<>>
      [] t = "distributions" ->
             IF m = "part_001" THEN <<Line("sub", "", "", "")>> ELSE <<>>
      [] t = "src/dist/.up2date" -> <<Line("sub", t, "", "")>>
      [] t = ".distributions.up2date" -> <<Line("sub", "", "", ""), Touch(t)>>
      [] t \in Range(ManHtml) -> <<Line("write", t, "", "")>>
      [] OTHER -> <<>>

HistMt(n) == IF n \in HistFiles THEN mtime[n] ELSE 0

RECURSIVE HistVisit(_, _, _), HistVisitAll(_, _, _)
HistVisit(m, t, acc) ==
    IF t \in Range(acc) THEN acc
    ELSE Append(HistVisitAll(m, HistRule(m, t), acc), t)
HistVisitAll(m, ps, acc) ==
    IF ps = <<>> THEN acc
    ELSE HistVisitAll(m, Tail(ps), HistVisit(m, Head(ps), acc))

HistMustMake(t) ==
    \/ t \in HistPhony(mk)
    \/ HistMt(t) = 0
    \/ \E p \in Range(HistRule(mk, t)) : HistMt(p) = 0 \/ HistMt(p) > HistMt(t)

HistGoals == {"local", "webpage", "distributions"}

\* `make g` with a historical Makefile.
HistMake(g) ==
    /\ mk \in HistRevisions
    /\ phase # "running"
    /\ runs < MaxRuns
    /\ runs' = runs + 1
    /\ goal' = g
    /\ pc' = [n \in HistNodes(mk) |-> 0]
    /\ ran' = {}
    /\ hist' = [again |-> phase = "done" /\ exit = 0 /\ goal = g,
                edited |-> hist.pending, pending |-> {}]
    /\ order' = HistVisit(mk, g, <<>>)
    /\ st' = [n \in HistNodes(mk) |->
                IF n \notin Range(order') THEN "none"
                ELSE IF n \in TargetsOf(mk) THEN "todo" ELSE "done"]
    /\ phase' = "running"
    /\ exit' = 0
    /\ UNCHANGED <<mk, fsVars, jobs, wild, out, launcherVars>>

HistFirstReady ==
    LET idx == {i \in 1..Len(order) :
                   /\ st[order[i]] = "todo"
                   /\ \A p \in Range(HistRule(mk, order[i])) : st[p] = "done"}
    IN  IF idx = {} THEN "" ELSE order[CHOOSE i \in idx : \A j \in idx : i <= j]

HistExits(s) ==
    \/ \E n \in DOMAIN s : s[n] = "failed"
    \/ \A n \in DOMAIN s : s[n] \notin {"todo", "run"}

\* make considers target t (one recipe at a time).
HistStart(t) ==
    /\ mk \in HistRevisions
    /\ phase = "running"
    /\ \A n \in DOMAIN st : st[n] # "run"
    /\ t = HistFirstReady
    /\ st' = [st EXCEPT ![t] =
                 IF HistMustMake(t) /\ HistRecipe(mk, t) # <<>> THEN "run" ELSE "done"]
    /\ phase' = IF HistExits(st') THEN "done" ELSE "running"
    /\ UNCHANGED <<mk, fsVars, runs, goal, jobs, wild, order, pc, ran, out, exit,
                   hist, launcherVars>>

\* The next line of t's recipe runs and exits with code.  A pipeline
\* redirected into a file creates the file whatever its status; whether the
\* sub-make in src (not part of these Makefiles) creates src/dist/.up2date
\* is left open.
HistStep(t, code, made) ==
    /\ mk \in HistRevisions
    /\ phase = "running"
    /\ t \in TargetsOf(mk)
    /\ st[t] = "run"
    /\ LET n == pc[t] + 1
           l == HistRecipe(mk, t)[n]
           made_ok == CASE l.op = "write" -> made
                        [] l.op = "sub" /\ l.a # "" -> TRUE
                        [] OTHER -> made = (code = 0)
           writes == l.op \in {"touch", "write", "sub"} /\ l.a # "" /\ made
       IN  /\ made_ok
           /\ mtime' = IF writes THEN [mtime EXCEPT ![l.a] = clock + 1] ELSE mtime
           /\ clock' = IF writes THEN clock + 1 ELSE clock
           /\ ran' = ran \cup {<<t, n, code>>}
           /\ pc' = [pc EXCEPT ![t] = n]
           /\ st' = [st EXCEPT ![t] =
                        IF code # 0 THEN "failed"
                        ELSE IF n = Len(HistRecipe(mk, t)) THEN "done" ELSE "run"]
    /\ phase' = IF HistExits(st') THEN "done" ELSE "running"
    /\ exit' = IF \E n \in DOMAIN st' : st'[n] = "failed" THEN 2 ELSE 0
    /\ UNCHANGED <<mk, ver, dex, dir, content, remote, edits, runs, goal, jobs,
                   wild, order, out, hist, launcherVars>>

\* A source file is changed between two invocations.
HistEdit(f) ==
    /\ mk \in HistRevisions
    /\ phase = "done"
    /\ runs < MaxRuns
    /\ edits < MaxEdits
    /\ edits' = edits + 1
    /\ clock' = clock + 1
    /\ mtime' = [mtime EXCEPT ![f] = clock + 1]
    /\ hist' = [hist EXCEPT !.pending = hist.pending \cup {f}]
    /\ UNCHANGED <<mk, ver, dex, dir, content, remote, runs, phase, goal, jobs,
                   wild, order, st, pc, ran, out, exit, launcherVars>>

InitHist ==
    /\ LauncherIdle
    /\ mk \in HistRevisions
    /\ mtime = [f \in HistFiles |-> IF f \in HistSources THEN 1 ELSE 0]
    /\ ver = <<>> /\ dex = {} /\ dir = <<>> /\ content = <<>> /\ remote = {}
    /\ clock = 1 /\ edits = 0 /\ runs = 0
    /\ phase = "idle" /\ goal = "" /\ jobs = 1
    /\ wild = <<>> /\ order = <<>> /\ st = <<>> /\ pc = <<>>
    /\ ran = {} /\ out = <<>> /\ exit = 0
    /\ hist = [again |-> FALSE, edited |-> {}, pending |-> {}]

NextHist ==
    \/ \E g \in HistGoals : HistMake(g)
    \/ \E t \in UNION {TargetsOf(m) : m \in HistRevisions} : HistStart(t)
    \/ \E t \in UNION {TargetsOf(m) : m \in HistRevisions} :
           \E code \in {0, 1}, made \in BOOLEAN : HistStep(t, code, made)
    \/ \E f \in {"src/epydoc/cli.py"} : HistEdit(f)
SpecHist == InitHist /\ [][NextHist]_vars

\* C15 (as stated): in the historical revisions every sentinel rule creates
\* its sentinel when its recipe succeeds and has only files as
\* prerequisites, and a second `make local` or `make webpage` on an
\* unchanged tree runs no generation and no assembly line.
HistOwnSentinels == (HistSentinels \ {"src/dist/.up2date"}) \cap TargetsOf(mk)

C15_HistoricalSentinelsWork ==
    /\ \A s \in HistOwnSentinels :
           /\ s \in Range(order) => Range(HistRule(mk, s)) \subseteq HistFiles
           /\ (Untouched /\ \A n \in 1..Len(HistRecipe(mk, s)) : <<s, n, 0>> \in ran)
                  => HistMt(s) > 0
    /\ (goal \in {"local", "webpage"} /\ hist.again /\ hist.edited = {})
           => \A e \in ran : HistRecipe(mk, e[1])[e[2]].op = "pub"

\* The paths a recipe line writes (creates, changes or deletes) and reads.
LineWrites(l) ==
    CASE l.op = "rmrf" -> UNION {Tree(d) : d \in l.a}
      [] l.op \in {"mkdir", "touch", "epydoc", "rmglob"} -> {l.a}
      [] l.op = "profile" -> {l.a, l.b}
      [] l.op \in {"rst2html", "man2html", "cpdocs", "cpdir", "cpglob", "cpfile"}
             -> {l.b}
      [] l.op = "submake" -> {SRC_DIST}
      [] OTHER -> {}

LineReads(l) ==
    CASE l.op \in {"cpdocs", "rst2html"} -> Range(l.a)
      [] l.op \in {"cpdir", "cpglob", "rsync", "man2html"} -> {l.a}
      [] l.op = "cpfile" -> {l.a[1]}
      [] OTHER -> {}

\* What the recipe of t writes, and what it reads: the operands of its
\* lines and the prerequisite files of its rule.
Writes(t) == UNION {LineWrites(Recipe(t)[n]) : n \in 1..Len(Recipe(t))}
Reads(t)  == FilePrereqs(t)
                 \cup UNION {LineReads(Recipe(t)[n]) : n \in 1..Len(Recipe(t))}

\* Two sets of paths meet: a path of one is, or lies below, a path of the other.
Overlap(A, B) == \E a \in A, b \in B : a \in Tree(b) \/ b \in Tree(a)

Conflict(t, u) ==
    \/ Overlap(Writes(t), Writes(u))
    \/ Overlap(Writes(t), Reads(u))
    \/ Overlap(Reads(t), Writes(u))

\* Neither target is among the (transitive) prerequisites of the other.
Unordered(t, u) ==
    /\ t \notin Range(OrderOf(u, DOCS))
    /\ u \notin Range(OrderOf(t, DOCS))

\* C16: recipes that run at the same time, and at the start of an invocation
\* any two recipes of the goal that the rules leave unordered, neither write
\* a common path nor does one write what the other reads; while the webpage
\* assembly runs, no component recipe runs.
C16_ConcurrentRecipesDisjoint ==
    /\ \A t, u \in Running : t # u => ~Conflict(t, u)
    /\ (phase = "running" /\ ran = {} /\ Running = {})
           => \A t, u \in Range(order) \cap Targets :
                  (t # u /\ Unordered(t, u)) => ~Conflict(t, u)
    /\ st[".webpage.up2date"] = "run"
           => \A c \in Components \cup {"profile.out"} : st[c] # "run"

\* Under -j 2 the webpage assembly and the stdlib-html recipe run side by
\* side, each having run lines.
C16_Witness ==
    /\ jobs = 2 /\ phase = "running"
    /\ st[".webpage.up2date"] = "run" /\ pc[".webpage.up2date"] >= 4
    /\ st[".stdlib-html.up2date"] = "run" /\ pc[".stdlib-html.up2date"] >= 1
====
